---- MODULE Spec2Model ----
(***************************************************************************)
(* Model of the mongodb-data-generator pipeline:                           *)
(*   generator.Service (producer workers + monitor)  -> docChan ->         *)
(*   mongo.Writer (consumer workers, batching, flushBatch) -> YCSBLogger.  *)
(* Every atomic load/add, channel operation, lock-protected logger call    *)
(* and blocking store call is one step; purely local computation is        *)
(* folded into the step that follows it.                                   *)
(***************************************************************************)
EXTENDS Integers, Sequences, FiniteSets, TLC

(* ---------------------------------------------------------------- bounds *)
MaxWorkers == 2
MaxWriters == 2
MaxPool == 3
MaxBatch == 2
MaxTargetDocs == 2
RaceWorkers == 3

(* ------------------------------------------------------ program constants *)
DocSize == 2048
PaddingOverhead == 12

(* Serialized (bson.Marshal) size of one generated document.  Generate pads *)
(* an undersized document to DocSize - PaddingOverhead and never truncates  *)
(* an oversized one, so the size is either the padded size or larger than   *)
(* the tier; one oversized representative is kept.                          *)
PaddedSize == DocSize - PaddingOverhead
OversizedSize == 2 * DocSize
SerializedSizes == {PaddedSize, OversizedSize}
MaxSerializedSize == OversizedSize

(* Wall-clock latency of one InsertMany call, in microseconds.             *)
InsertLatenciesUs == {250}

(* Configurations the constructors are given: targets are whole and half   *)
(* multiples of the tier size.  The pools are explored together up to       *)
(* MaxPool workers; the race of RaceWorkers producers for the last record   *)
(* is explored on the smallest pipeline.                                    *)
TargetChoices == {(h * DocSize) \div 2 : h \in 2..(2 * MaxTargetDocs + 1)}
SmallConfigs ==
    {c \in [workers : 1..MaxWorkers, writers : 1..MaxWriters,
            batch : 1..MaxBatch, target : TargetChoices] :
        c.workers + c.writers <= MaxPool}
RaceConfigs ==
    [workers : {RaceWorkers}, writers : {1}, batch : {1}, target : {DocSize}]

VARIABLES
    workerCount, writerCount, batchSize, targetBytes,
    bytesGenerated, docsGenerated,
    chanLen, chanClosed, closeCount, sent,
    ctxCancelled, panicked,
    ppc, pexit, mpc, mexit,
    wpc, wexit, batchLen, after, insertOk, latencyUs, recI, loadedBW,
    received, flushed,
    bytesWritten, docsWritten,
    operations, successCount, errorCount, logBytesWritten, lastOpCount,
    now, lastLogTime,
    logFile, reports, loggerClosed,
    mainPc,
    fnPc, call, ret

cfgVars == <<workerCount, writerCount, batchSize, targetBytes>>
genVars == <<bytesGenerated, docsGenerated>>
chanVars == <<chanLen, chanClosed, closeCount, sent>>
prodVars == <<ppc, pexit>>
monVars == <<mpc, mexit>>
consVars == <<wpc, wexit, batchLen, after, insertOk, latencyUs, recI, loadedBW,
             received, flushed>>
wrVars == <<bytesWritten, docsWritten>>
logVars == <<operations, successCount, errorCount, logBytesWritten, lastOpCount,
             now, lastLogTime, logFile, reports, loggerClosed>>
mainVars == <<mainPc>>
pipeVars == <<cfgVars, genVars, chanVars, ctxCancelled, panicked, prodVars, monVars,
              consVars, wrVars, logVars>>
fnVars == <<fnPc, call, ret>>
vars == <<pipeVars, mainVars, fnVars>>

Producers == 1..workerCount
Writers == 1..writerCount

(* make(chan *model.CustomerDocument, config.BatchSize*2)                   *)
ChanCap_Triple == batchSize * 3
ChanCap == batchSize * 2

(* ------------------------------------------------------------ contexts   *)
(* errgroup.WithContext: the derived context is done when the parent is    *)
(* cancelled or when a goroutine of the group has returned a non-nil error.*)
ProducerErrExits == {"ctxHead", "ctxSend", "genErr"}
WriterErrExits == {"ctx", "insertErr", "marshalErr"}

GenCtxDone ==
    \/ ctxCancelled
    \/ \E p \in Producers : ppc[p] = "done" /\ pexit[p] \in ProducerErrExits
    \/ mpc = "done" /\ mexit = "ctx"

WriteCtxDone ==
    \/ ctxCancelled
    \/ \E w \in Writers : wpc[w] = "done" /\ wexit[w] \in WriterErrExits

(* ---------------------------------------------------------------- Init   *)
HeaderLines == <<"header">>

InitConfig(configs) ==
    \E c \in configs :
        /\ workerCount = c.workers
        /\ writerCount = c.writers
        /\ batchSize = c.batch
        /\ targetBytes = c.target

InitState ==
    /\ bytesGenerated = 0
    /\ docsGenerated = 0
    /\ chanLen = 0
    /\ chanClosed = FALSE
    /\ closeCount = 0
    /\ sent = 0
    /\ ctxCancelled = FALSE
    /\ panicked = FALSE
    /\ ppc = [p \in Producers |-> "head"]
    /\ pexit = [p \in Producers |-> "none"]
    /\ mpc = "run"
    /\ mexit = "none"
    /\ wpc = [w \in Writers |-> "select"]
    /\ wexit = [w \in Writers |-> "none"]
    /\ batchLen = [w \in Writers |-> 0]
    /\ after = [w \in Writers |-> "none"]
    /\ insertOk = [w \in Writers |-> TRUE]
    /\ latencyUs = [w \in Writers |-> 0]
    /\ recI = [w \in Writers |-> 0]
    /\ loadedBW = [w \in Writers |-> 0]
    /\ received = [w \in Writers |-> 0]
    /\ flushed = [w \in Writers |-> 0]
    /\ bytesWritten = 0
    /\ docsWritten = 0
    /\ operations = <<>>
    /\ successCount = 0
    /\ errorCount = 0
    /\ logBytesWritten = 0
    /\ lastOpCount = 0
    /\ now = 0
    /\ lastLogTime = 0
    /\ logFile = HeaderLines
    /\ reports = <<>>
    /\ loggerClosed = FALSE
    /\ mainPc = "wait"

(* In the runs of the pipeline no function is applied on its own.          *)
NoCall == [fn |-> "none"]
InitIdle == fnPc = "idle" /\ call = NoCall /\ ret = NoCall

Init ==
    /\ InitConfig(SmallConfigs \cup RaceConfigs)
    /\ InitState
    /\ InitIdle

(* ------------------------------------------------------ producer worker  *)
ProducerExit(p, how) ==
    /\ ppc' = [ppc EXCEPT ![p] = "done"]
    /\ pexit' = [pexit EXCEPT ![p] = how]

(* if atomic.LoadInt64(&s.bytesGenerated) >= s.targetBytes { return nil }   *)
TargetReached(loaded) == loaded >= targetBytes

ProducerHead(p) ==
    /\ ~panicked
    /\ ppc[p] = "head"
    /\ IF TargetReached(bytesGenerated)
         THEN ProducerExit(p, "targetMet")
         ELSE ppc' = [ppc EXCEPT ![p] = "select"] /\ UNCHANGED pexit
    /\ UNCHANGED <<cfgVars, mainVars, fnVars, genVars, chanVars, ctxCancelled, panicked, monVars,
                   consVars, wrVars, logVars>>

(* select { case <-ctx.Done(): return ctx.Err(); default: Generate() ... }  *)
ProducerSelect(p) ==
    /\ ~panicked
    /\ ppc[p] = "select"
    /\ IF GenCtxDone
         THEN ProducerExit(p, "ctxHead")
         ELSE ppc' = [ppc EXCEPT ![p] = "recheck"] /\ UNCHANGED pexit
    /\ UNCHANGED <<cfgVars, mainVars, fnVars, genVars, chanVars, ctxCancelled, panicked, monVars,
                   consVars, wrVars, logVars>>

(* doc, err := s.docGenerator.Generate(); if err != nil { return err }      *)
ProducerGenerateFails(p) ==
    /\ ~panicked
    /\ ppc[p] = "select"
    /\ ~GenCtxDone
    /\ ProducerExit(p, "genErr")
    /\ UNCHANGED <<cfgVars, mainVars, fnVars, genVars, chanVars, ctxCancelled, panicked, monVars,
                   consVars, wrVars, logVars>>

(* if currentBytes+docSize > s.targetBytes { return nil }                   *)
WouldOvershoot_Late(currentBytes, docSize) == currentBytes > targetBytes
WouldOvershoot(currentBytes, docSize) == currentBytes + docSize > targetBytes

ProducerRecheck(p) ==
    /\ ~panicked
    /\ ppc[p] = "recheck"
    /\ IF WouldOvershoot(bytesGenerated, DocSize)
         THEN ProducerExit(p, "overshoot")
         ELSE ppc' = [ppc EXCEPT ![p] = "send"] /\ UNCHANGED pexit
    /\ UNCHANGED <<cfgVars, mainVars, fnVars, genVars, chanVars, ctxCancelled, panicked, monVars,
                   consVars, wrVars, logVars>>

(* case s.docChan <- doc: the send completes when the buffer has room.      *)
ProducerSend(p) ==
    /\ ~panicked
    /\ ppc[p] = "send"
    /\ ~chanClosed
    /\ chanLen < ChanCap
    /\ chanLen' = chanLen + 1
    /\ sent' = sent + 1
    /\ ppc' = [ppc EXCEPT ![p] = "addBytes"]
    /\ UNCHANGED <<cfgVars, mainVars, fnVars, genVars, chanClosed, closeCount, ctxCancelled, panicked,
                   pexit, monVars, consVars, wrVars, logVars>>

(* A send on a closed channel panics, also inside a select.                 *)
ProducerSendOnClosed(p) ==
    /\ ~panicked
    /\ ppc[p] = "send"
    /\ chanClosed
    /\ panicked' = TRUE
    /\ UNCHANGED <<cfgVars, mainVars, fnVars, genVars, chanVars, ctxCancelled, prodVars, monVars,
                   consVars, wrVars, logVars>>

ProducerSendCancelled_Counts(p) ==
    /\ ~panicked
    /\ ppc[p] = "send"
    /\ GenCtxDone
    /\ ProducerExit(p, "ctxSend")
    /\ bytesGenerated' = bytesGenerated + DocSize
    /\ docsGenerated' = docsGenerated + 1
    /\ UNCHANGED <<cfgVars, mainVars, fnVars, chanVars, ctxCancelled, panicked, monVars,
                   consVars, wrVars, logVars>>

(* case <-ctx.Done(): return ctx.Err()   (second case of the send select)   *)
ProducerSendCancelled(p) ==
    /\ ~panicked
    /\ ppc[p] = "send"
    /\ GenCtxDone
    /\ ProducerExit(p, "ctxSend")
    /\ UNCHANGED <<cfgVars, mainVars, fnVars, genVars, chanVars, ctxCancelled, panicked, monVars,
                   consVars, wrVars, logVars>>

ProducerAddBytes_Serialized(p) ==
    /\ ~panicked
    /\ ppc[p] = "addBytes"
    /\ bytesGenerated' = bytesGenerated + PaddedSize
    /\ ppc' = [ppc EXCEPT ![p] = "addDocs"]
    /\ UNCHANGED <<cfgVars, mainVars, fnVars, docsGenerated, chanVars, ctxCancelled,
                   panicked, pexit, monVars, consVars, wrVars, logVars>>

(* atomic.AddInt64(&s.bytesGenerated, docSize)                              *)
ProducerAddBytes(p) ==
    /\ ~panicked
    /\ ppc[p] = "addBytes"
    /\ bytesGenerated' = bytesGenerated + DocSize
    /\ ppc' = [ppc EXCEPT ![p] = "addDocs"]
    /\ UNCHANGED <<cfgVars, mainVars, fnVars, docsGenerated, chanVars, ctxCancelled, panicked, pexit,
                   monVars, consVars, wrVars, logVars>>

(* atomic.AddInt64(&s.docsGenerated, 1)                                     *)
ProducerAddDocs(p) ==
    /\ ~panicked
    /\ ppc[p] = "addDocs"
    /\ docsGenerated' = docsGenerated + 1
    /\ ppc' = [ppc EXCEPT ![p] = "head"]
    /\ UNCHANGED <<cfgVars, mainVars, fnVars, bytesGenerated, chanVars, ctxCancelled, panicked, pexit,
                   monVars, consVars, wrVars, logVars>>

(* ------------------------------------------------------------- monitor   *)
(* case <-ticker.C: if bytesGenerated >= targetBytes { close; return nil }  *)
(* A tick that finds the target not met changes nothing.                    *)
MonitorMayClose_AnyTick(loaded) == loaded >= 0
MonitorMayClose(loaded) == loaded >= targetBytes

MonitorTick ==
    /\ ~panicked
    /\ mpc = "run"
    /\ MonitorMayClose(bytesGenerated)
    /\ chanClosed' = TRUE
    /\ closeCount' = closeCount + 1
    /\ mpc' = "done"
    /\ mexit' = "closed"
    /\ UNCHANGED <<cfgVars, mainVars, fnVars, genVars, chanLen, sent, ctxCancelled, panicked, prodVars,
                   consVars, wrVars, logVars>>

(* case <-ctx.Done(): return ctx.Err()                                      *)
MonitorCancelled ==
    /\ ~panicked
    /\ mpc = "run"
    /\ GenCtxDone
    /\ mpc' = "done"
    /\ mexit' = "ctx"
    /\ UNCHANGED <<cfgVars, mainVars, fnVars, genVars, chanVars, ctxCancelled, panicked, prodVars,
                   consVars, wrVars, logVars>>

(* ------------------------------------------------------- cancellation    *)
(* The signal handler calls cancel() on the context shared by both pools.   *)
Cancel ==
    /\ ~panicked
    /\ ~ctxCancelled
    /\ ctxCancelled' = TRUE
    /\ UNCHANGED <<cfgVars, mainVars, fnVars, genVars, chanVars, panicked, prodVars, monVars,
                   consVars, wrVars, logVars>>

(* ------------------------------------------------------ YCSB logger      *)
(* RecordOperation: append one Operation under the lock and count it.       *)
Operation(opType, lat, success) ==
    [type |-> opType, latencyUs |-> lat, success |-> success]

RecordOperation_CountsSuccessOnly(opType, lat, success) ==
    /\ operations' = Append(operations, Operation(opType, lat, success))
    /\ successCount' = IF success THEN successCount + 1 ELSE successCount
    /\ errorCount' = errorCount

RecordOperation(opType, lat, success) ==
    /\ operations' = Append(operations, Operation(opType, lat, success))
    /\ successCount' = IF success THEN successCount + 1 ELSE successCount
    /\ errorCount' = IF success THEN errorCount ELSE errorCount + 1

(* ------------------------------------------------- logger statistics     *)
(* latencies[i] = op.LatencyUs                                              *)
Latencies(ops) == [i \in 1..Len(ops) |-> ops[i].latencyUs]

RECURSIVE SumSeq(_)
SumSeq(seq) == IF seq = <<>> THEN 0 ELSE Head(seq) + SumSeq(Tail(seq))

(* sort.Slice(latencies, func(i, j) bool { return latencies[i] <            *)
(* latencies[j] }): the result is the ascending arrangement of the slice.   *)
(* Every element goes to the place given by the number of elements that     *)
(* come before it in that arrangement.                                      *)
SortRank(seq, i) ==
    Cardinality({j \in 1..Len(seq) :
                    seq[j] < seq[i] \/ (seq[j] = seq[i] /\ j < i)}) + 1

SortAscending_Unsorted(seq) == seq
SortAscending(seq) ==
    [k \in 1..Len(seq) |-> seq[CHOOSE i \in 1..Len(seq) : SortRank(seq, i) = k]]

(* A Go slice is indexed from 0.                                            *)
At0(seq, i) == seq[i + 1]

(* pIndex := int(float64(len(latencies)) * p); if pIndex >= len(latencies)  *)
(* { pIndex = len(latencies) - 1 }, for p = num / den.  The float64 product *)
(* truncates to the exact floor(n * num / den) for the ladder's values of p.*)
PercentileIndex_FromEnd(n, num, den) ==
    LET idx == (n * num) \div den
    IN  IF idx >= n THEN 0 ELSE n - 1 - idx

PercentileIndex(n, num, den) ==
    LET idx == (n * num) \div den
    IN  IF idx >= n THEN n - 1 ELSE idx

Percentile(sorted, num, den) ==
    At0(sorted, PercentileIndex(Len(sorted), num, den))

(* formatOperationStatsInline: the values printed for one operation type.   *)
formatOperationStatsInline(opType, ops) ==
    IF Len(ops) = 0
      THEN [type |-> opType, count |-> 0]
      ELSE LET latencies == SortAscending(Latencies(ops))
           IN  [type |-> opType,
                count |-> Len(ops),
                max |-> At0(latencies, Len(latencies) - 1),
                min |-> At0(latencies, 0),
                totalLatency |-> SumSeq(Latencies(ops)),
                p90 |-> Percentile(latencies, 90, 100),
                p99 |-> Percentile(latencies, 99, 100),
                p999 |-> Percentile(latencies, 999, 1000),
                p9999 |-> Percentile(latencies, 9999, 10000)]

(* writeFinalOperationStats: the values of the final block of one type; for *)
(* an empty list nothing is written.                                        *)
CountSuccess(ops) == Cardinality({i \in 1..Len(ops) : ops[i].success})
writeFinalOperationStats(opType, ops) ==
    IF Len(ops) = 0
      THEN [type |-> opType, count |-> 0]
      ELSE LET latencies == SortAscending(Latencies(ops))
           IN  [type |-> opType,
                count |-> Len(ops),
                max |-> At0(latencies, Len(latencies) - 1),
                min |-> At0(latencies, 0),
                totalLatency |-> SumSeq(Latencies(ops)),
                p50 |-> Percentile(latencies, 50, 100),
                p95 |-> Percentile(latencies, 95, 100),
                p99 |-> Percentile(latencies, 99, 100),
                p999 |-> Percentile(latencies, 999, 1000),
                p9999 |-> Percentile(latencies, 9999, 10000),
                p99999 |-> Percentile(latencies, 99999, 100000),
                ok |-> CountSuccess(ops),
                error |-> Len(ops) - CountSuccess(ops)]

(* Group operations by type: opsByType[op.Type] = append(...).             *)
TypesOf(ops) == {ops[i].type : i \in 1..Len(ops)}
OpsOfType(ops, t) == SelectSeq(ops, LAMBDA op : op.type = t)

(* The values the final block prints, kept beside the lines of the file.    *)
FinalReports(ops) ==
    IF Len(ops) = 0
      THEN <<>>
      ELSE <<[kind |-> "final",
              totalOps |-> Len(ops),
              stats |-> [t \in TypesOf(ops) |->
                            writeFinalOperationStats(t, OpsOfType(ops, t))]]>>

(* WriteFinalStats: nothing is written when no operation was recorded;      *)
(* otherwise the [OVERALL] lines and one block per operation type.          *)
FinalStatsLines(ops) ==
    IF Len(ops) = 0
      THEN <<>>
      ELSE <<"overallRunTime", "overallThroughput", "finalOperationStats">>

(* Close: WriteFinalStats(), then the file is closed.  Called by the owner  *)
(* of the logger once Write has returned.                                   *)
LoggerClose ==
    /\ ~panicked
    /\ ~loggerClosed
    /\ \A w \in Writers : wpc[w] = "done"
    /\ logFile' = logFile \o FinalStatsLines(operations)
    /\ reports' = reports \o FinalReports(operations)
    /\ now' = now + 1
    /\ loggerClosed' = TRUE
    /\ UNCHANGED <<cfgVars, mainVars, fnVars, genVars, chanVars, ctxCancelled, panicked, prodVars,
                   monVars, consVars, wrVars, operations, successCount, errorCount,
                   logBytesWritten, lastOpCount, lastLogTime>>

(* ------------------------------------------------------ consumer worker  *)
ConsumerExit(w, how) ==
    /\ wpc' = [wpc EXCEPT ![w] = "done"]
    /\ wexit' = [wexit EXCEPT ![w] = how]

(* A call of flushBatch(ctx, batch) with a non-empty batch; `why` is the    *)
(* call site, which decides what the worker does when the call returns nil. *)
(* received[w] and flushed[w] count the records the worker has taken from   *)
(* the channel and the records of the batches it has passed to flushBatch.  *)
BeginFlush(w, why) ==
    /\ wpc' = [wpc EXCEPT ![w] = "insert"]
    /\ after' = [after EXCEPT ![w] = why]
    /\ flushed' = [flushed EXCEPT ![w] = @ + batchLen[w]]
    /\ UNCHANGED wexit

(* case <-ctx.Done(): flush the remaining batch, return ctx.Err()           *)
ConsumerCtxDone(w) ==
    /\ ~panicked
    /\ wpc[w] = "select"
    /\ WriteCtxDone
    /\ IF batchLen[w] > 0
         THEN BeginFlush(w, "ctx")
         ELSE ConsumerExit(w, "ctx") /\ UNCHANGED <<after, flushed>>
    /\ UNCHANGED <<cfgVars, mainVars, fnVars, genVars, chanVars, ctxCancelled, panicked, prodVars,
                   monVars, batchLen, insertOk, latencyUs, recI, loadedBW, received,
                   wrVars,
                   logVars>>

ConsumerReceive_Peek(w) ==
    /\ ~panicked
    /\ wpc[w] = "select"
    /\ chanLen > 0
    /\ batchLen' = [batchLen EXCEPT ![w] = @ + 1]
    /\ received' = [received EXCEPT ![w] = @ + 1]
    /\ wpc' = [wpc EXCEPT ![w] = "check"]
    /\ UNCHANGED <<cfgVars, mainVars, fnVars, genVars, chanVars, ctxCancelled,
                   panicked, prodVars, monVars, wexit, after, insertOk, latencyUs,
                   recI, loadedBW, flushed, wrVars, logVars>>

(* case doc, ok := <-docChan with ok: batch = append(batch, doc)            *)
ConsumerReceive(w) ==
    /\ ~panicked
    /\ wpc[w] = "select"
    /\ chanLen > 0
    /\ chanLen' = chanLen - 1
    /\ batchLen' = [batchLen EXCEPT ![w] = @ + 1]
    /\ received' = [received EXCEPT ![w] = @ + 1]
    /\ wpc' = [wpc EXCEPT ![w] = "check"]
    /\ UNCHANGED <<cfgVars, mainVars, fnVars, genVars, chanClosed, closeCount, sent, ctxCancelled,
                   panicked, prodVars, monVars, wexit, after, insertOk, latencyUs,
                   recI, loadedBW, flushed, wrVars, logVars>>

(* case doc, ok := <-docChan with !ok: closed and drained                   *)
ConsumerChanClosed(w) ==
    /\ ~panicked
    /\ wpc[w] = "select"
    /\ chanClosed
    /\ chanLen = 0
    /\ IF batchLen[w] > 0
         THEN BeginFlush(w, "closed")
         ELSE ConsumerExit(w, "closed") /\ UNCHANGED <<after, flushed>>
    /\ UNCHANGED <<cfgVars, mainVars, fnVars, genVars, chanVars, ctxCancelled, panicked, prodVars,
                   monVars, batchLen, insertOk, latencyUs, recI, loadedBW, received,
                   wrVars,
                   logVars>>

(* case <-ticker.C: flush a non-empty batch (an empty one changes nothing)  *)
ConsumerTick(w) ==
    /\ ~panicked
    /\ wpc[w] = "select"
    /\ batchLen[w] > 0
    /\ BeginFlush(w, "tick")
    /\ UNCHANGED <<cfgVars, mainVars, fnVars, genVars, chanVars, ctxCancelled, panicked, prodVars,
                   monVars, batchLen, insertOk, latencyUs, recI, loadedBW, received,
                   wrVars,
                   logVars>>

(* After the append: the soft cutoff, then the batch-full test.             *)
CutoffReached(loaded) == loaded >= targetBytes
BatchFull_OneMore(n) == n > batchSize
BatchFull(n) == n >= batchSize

ConsumerCheck(w) ==
    /\ ~panicked
    /\ wpc[w] = "check"
    /\ IF CutoffReached(bytesWritten)
         THEN BeginFlush(w, "cutoff")
         ELSE IF BatchFull(batchLen[w])
           THEN BeginFlush(w, "full")
           ELSE /\ wpc' = [wpc EXCEPT ![w] = "select"]
                /\ UNCHANGED <<wexit, after, flushed>>
    /\ UNCHANGED <<cfgVars, mainVars, fnVars, genVars, chanVars, ctxCancelled, panicked, prodVars,
                   monVars, batchLen, insertOk, latencyUs, recI, loadedBW, received,
                   wrVars,
                   logVars>>

(* ------------------------------------------------------------ flushBatch *)
ConsumerMarshalFails_AfterCounting(w) ==
    /\ ~panicked
    /\ wpc[w] = "insert"
    /\ ConsumerExit(w, "marshalErr")
    /\ docsWritten' = docsWritten + batchLen[w]
    /\ UNCHANGED <<cfgVars, mainVars, fnVars, genVars, chanVars, ctxCancelled, panicked, prodVars,
                   monVars, batchLen, after, insertOk, latencyUs, recI, loadedBW,
                   received, flushed, bytesWritten, logVars>>

(* bson.Marshal(doc) fails for a record: flushBatch returns the error       *)
(* before any write, and the worker returns it.                             *)
ConsumerMarshalFails(w) ==
    /\ ~panicked
    /\ wpc[w] = "insert"
    /\ ConsumerExit(w, "marshalErr")
    /\ UNCHANGED <<cfgVars, mainVars, fnVars, genVars, chanVars, ctxCancelled, panicked, prodVars,
                   monVars, batchLen, after, insertOk, latencyUs, recI, loadedBW,
                   received, flushed,
                   wrVars, logVars>>

(* _, err := w.collection.InsertMany(ctx, batch, opts): the driver returns  *)
(* an error for a context that is already done; otherwise the write         *)
(* succeeds or fails.                                                       *)
InsertManyOutcomes(ctxDone) == IF ctxDone THEN {FALSE} ELSE {TRUE, FALSE}

InsertReturns(w, ok) ==
    /\ ~panicked
    /\ wpc[w] = "insert"
    /\ ok \in InsertManyOutcomes(WriteCtxDone)
    /\ \E lat \in InsertLatenciesUs : latencyUs' = [latencyUs EXCEPT ![w] = lat]
    /\ insertOk' = [insertOk EXCEPT ![w] = ok]
    /\ recI' = [recI EXCEPT ![w] = 0]
    /\ wpc' = [wpc EXCEPT ![w] = "record"]
    /\ UNCHANGED <<cfgVars, mainVars, fnVars, genVars, chanVars, ctxCancelled, panicked, prodVars,
                   monVars, wexit, batchLen, after, loadedBW, received, flushed,
                   wrVars, logVars>>

ConsumerInsertOk(w) == InsertReturns(w, TRUE)
ConsumerInsertFails(w) == InsertReturns(w, FALSE)

(* for i := 0; i < len(batch); i++ { RecordOperation("INSERT", avg, success) } *)
AvgLatencyPerDoc_Whole(lat, n) == lat
AvgLatencyPerDoc(lat, n) == lat \div n

ConsumerRecord(w) ==
    /\ ~panicked
    /\ wpc[w] = "record"
    /\ RecordOperation("INSERT", AvgLatencyPerDoc(latencyUs[w], batchLen[w]),
                       insertOk[w])
    /\ recI' = [recI EXCEPT ![w] = @ + 1]
    /\ wpc' = [wpc EXCEPT ![w] = IF recI[w] + 1 >= batchLen[w]
                                   THEN "addBytes" ELSE "record"]
    /\ UNCHANGED <<cfgVars, mainVars, fnVars, genVars, chanVars, ctxCancelled, panicked, prodVars,
                   monVars, wexit, batchLen, after, insertOk, latencyUs, loadedBW,
                   received, flushed,
                   wrVars, logBytesWritten, lastOpCount, now, lastLogTime,
                   logFile, reports,
                   loggerClosed>>

(* totalBytes: the sum of len(bson.Marshal(doc)) over the batch.            *)
BatchTotals(n) == {a * PaddedSize + (n - a) * OversizedSize : a \in 0..n}

(* atomic.AddInt64(&w.bytesWritten, totalBytes)                             *)
ConsumerAddBytes(w) ==
    /\ ~panicked
    /\ wpc[w] = "addBytes"
    /\ \E totalBytes \in BatchTotals(batchLen[w]) :
          bytesWritten' = bytesWritten + totalBytes
    /\ wpc' = [wpc EXCEPT ![w] = "addDocs"]
    /\ UNCHANGED <<cfgVars, mainVars, fnVars, genVars, chanVars, ctxCancelled, panicked, prodVars,
                   monVars, wexit, batchLen, after, insertOk, latencyUs, recI,
                   loadedBW, received, flushed, docsWritten, logVars>>

(* atomic.AddInt64(&w.docsWritten, int64(len(batch))), then the argument   *)
(* of UpdateBytesWritten: atomic.LoadInt64(&w.bytesWritten).  docsWritten   *)
(* is read by no worker, so its add is taken together with the load.        *)
ConsumerAddDocs(w) ==
    /\ ~panicked
    /\ wpc[w] = "addDocs"
    /\ docsWritten' = docsWritten + batchLen[w]
    /\ loadedBW' = [loadedBW EXCEPT ![w] = bytesWritten]
    /\ wpc' = [wpc EXCEPT ![w] = "setBW"]
    /\ UNCHANGED <<cfgVars, mainVars, fnVars, genVars, chanVars, ctxCancelled, panicked, prodVars,
                   monVars, wexit, batchLen, after, insertOk, latencyUs, recI,
                   received, flushed, bytesWritten, logVars>>

FlushReturn_KeepBatch(w) ==
    IF ~insertOk[w]
      THEN ConsumerExit(w, "insertErr") /\ UNCHANGED <<batchLen, after>>
      ELSE IF after[w] \in {"ctx", "closed", "cutoff"}
        THEN ConsumerExit(w, after[w]) /\ UNCHANGED <<batchLen, after>>
        ELSE /\ after' = [after EXCEPT ![w] = "none"]
             /\ wpc' = [wpc EXCEPT ![w] = "select"]
             /\ UNCHANGED <<wexit, batchLen>>

(* What writeWorker does when flushBatch returns: the error of a failed     *)
(* insert is returned; otherwise the call site decides: return, or          *)
(* batch = batch[:0] and the next iteration.                                *)
FlushReturn(w) ==
    IF ~insertOk[w]
      THEN ConsumerExit(w, "insertErr") /\ UNCHANGED <<batchLen, after>>
      ELSE IF after[w] \in {"ctx", "closed", "cutoff"}
        THEN ConsumerExit(w, after[w]) /\ UNCHANGED <<batchLen, after>>
        ELSE /\ batchLen' = [batchLen EXCEPT ![w] = 0]
             /\ after' = [after EXCEPT ![w] = "none"]
             /\ wpc' = [wpc EXCEPT ![w] = "select"]
             /\ UNCHANGED wexit

(* UpdateBytesWritten(bytes) under the logger's lock, then flushBatch       *)
(* returns to writeWorker (its locals go out of scope).                     *)
ConsumerUpdateBytesWritten(w) ==
    /\ ~panicked
    /\ wpc[w] = "setBW"
    /\ logBytesWritten' = loadedBW[w]
    /\ FlushReturn(w)
    /\ latencyUs' = [latencyUs EXCEPT ![w] = 0]
    /\ recI' = [recI EXCEPT ![w] = 0]
    /\ loadedBW' = [loadedBW EXCEPT ![w] = 0]
    /\ UNCHANGED <<cfgVars, mainVars, fnVars, genVars, chanVars, ctxCancelled, panicked, prodVars,
                   monVars, insertOk, received, flushed, wrVars, operations,
                   successCount, errorCount, lastOpCount, now, lastLogTime,
                   logFile, reports,
                   loggerClosed>>

(* ------------------------------------------------------------------ Next *)
Next ==
    \/ \E p \in Producers : ProducerHead(p)
    \/ \E p \in Producers : ProducerSelect(p)
    \/ \E p \in Producers : ProducerGenerateFails(p)
    \/ \E p \in Producers : ProducerRecheck(p)
    \/ \E p \in Producers : ProducerSend(p)
    \/ \E p \in Producers : ProducerSendOnClosed(p)
    \/ \E p \in Producers : ProducerSendCancelled(p)
    \/ \E p \in Producers : ProducerAddBytes(p)
    \/ \E p \in Producers : ProducerAddDocs(p)
    \/ MonitorTick
    \/ MonitorCancelled
    \/ \E w \in Writers : ConsumerCtxDone(w)
    \/ \E w \in Writers : ConsumerReceive(w)
    \/ \E w \in Writers : ConsumerChanClosed(w)
    \/ \E w \in Writers : ConsumerTick(w)
    \/ \E w \in Writers : ConsumerCheck(w)
    \/ \E w \in Writers : ConsumerMarshalFails(w)
    \/ \E w \in Writers : ConsumerInsertOk(w)
    \/ \E w \in Writers : ConsumerInsertFails(w)
    \/ \E w \in Writers : ConsumerRecord(w)
    \/ \E w \in Writers : ConsumerAddBytes(w)
    \/ \E w \in Writers : ConsumerAddDocs(w)
    \/ \E w \in Writers : ConsumerUpdateBytesWritten(w)
    \/ Cancel
    \/ LoggerClose

Spec == Init /\ [][Next]_vars

(* ------------------------------------------------- runs without faults   *)
(* No cancellation, no failing write, no failing serialization: no context *)
(* is ever done, so the ctx.Done branches are not part of these runs.       *)
ProducerRun(p) ==
    \/ ProducerHead(p)
    \/ ProducerSelect(p)
    \/ ProducerRecheck(p)
    \/ ProducerSend(p)
    \/ ProducerSendOnClosed(p)
    \/ ProducerAddBytes(p)
    \/ ProducerAddDocs(p)

ConsumerRun(w) ==
    \/ ConsumerReceive(w)
    \/ ConsumerChanClosed(w)
    \/ ConsumerTick(w)
    \/ ConsumerCheck(w)
    \/ ConsumerRecord(w)
    \/ ConsumerAddBytes(w)
    \/ ConsumerAddDocs(w)
    \/ ConsumerUpdateBytesWritten(w)

NextNoFault ==
    \/ \E p \in Producers : ProducerHead(p)
    \/ \E p \in Producers : ProducerSelect(p)
    \/ \E p \in Producers : ProducerRecheck(p)
    \/ \E p \in Producers : ProducerSend(p)
    \/ \E p \in Producers : ProducerSendOnClosed(p)
    \/ \E p \in Producers : ProducerAddBytes(p)
    \/ \E p \in Producers : ProducerAddDocs(p)
    \/ MonitorTick
    \/ \E w \in Writers : ConsumerReceive(w)
    \/ \E w \in Writers : ConsumerChanClosed(w)
    \/ \E w \in Writers : ConsumerTick(w)
    \/ \E w \in Writers : ConsumerCheck(w)
    \/ \E w \in Writers : ConsumerInsertOk(w)
    \/ \E w \in Writers : ConsumerRecord(w)
    \/ \E w \in Writers : ConsumerAddBytes(w)
    \/ \E w \in Writers : ConsumerAddDocs(w)
    \/ \E w \in Writers : ConsumerUpdateBytesWritten(w)
    \/ LoggerClose

(* The Go scheduler runs every runnable goroutine, a ticker keeps firing    *)
(* and a store call returns: each worker that can take a step takes one.    *)
FairNoFault ==
    /\ \A p \in 1..MaxWorkers : WF_vars(p \in Producers /\ ProducerRun(p))
    /\ WF_vars(MonitorTick)
    /\ \A w \in 1..MaxWriters :
          WF_vars(w \in Writers /\ (ConsumerRun(w) \/ ConsumerInsertOk(w)))

InitNoFault == InitConfig(SmallConfigs) /\ InitState /\ InitIdle

SpecNoFault == InitNoFault /\ [][NextNoFault]_vars /\ FairNoFault

(* ------------------------------------------- runs where every write fails *)
AllFailTargetDocs == 4
AllFailConfigs ==
    [workers : {1}, writers : 1..MaxWriters, batch : 1..MaxBatch,
     target : {k * DocSize : k \in 1..AllFailTargetDocs}]

NextAllFail ==
    \/ \E p \in Producers : ProducerHead(p)
    \/ \E p \in Producers : ProducerSelect(p)
    \/ \E p \in Producers : ProducerRecheck(p)
    \/ \E p \in Producers : ProducerSend(p)
    \/ \E p \in Producers : ProducerAddBytes(p)
    \/ \E p \in Producers : ProducerAddDocs(p)
    \/ MonitorTick
    \/ \E w \in Writers : ConsumerCtxDone(w)
    \/ \E w \in Writers : ConsumerReceive(w)
    \/ \E w \in Writers : ConsumerChanClosed(w)
    \/ \E w \in Writers : ConsumerTick(w)
    \/ \E w \in Writers : ConsumerCheck(w)
    \/ \E w \in Writers : ConsumerInsertFails(w)
    \/ \E w \in Writers : ConsumerRecord(w)
    \/ \E w \in Writers : ConsumerAddBytes(w)
    \/ \E w \in Writers : ConsumerAddDocs(w)
    \/ \E w \in Writers : ConsumerUpdateBytesWritten(w)
    \/ LoggerClose

FairAllFail ==
    /\ \A p \in 1..MaxWorkers : WF_vars(p \in Producers /\ ProducerRun(p))
    /\ WF_vars(MonitorTick)
    /\ \A w \in 1..MaxWriters :
          WF_vars(w \in Writers /\
                  (ConsumerRun(w) \/ ConsumerCtxDone(w) \/ ConsumerInsertFails(w)))

InitAllFail == InitConfig(AllFailConfigs) /\ InitState /\ InitIdle

SpecAllFail == InitAllFail /\ [][NextAllFail]_vars /\ FairAllFail

(* ------------------------------------------------ runs with cancellation *)
(* Writes succeed or fail and the shared context may be cancelled at any    *)
(* moment; generation and serialization do not fail.                        *)
NextCancel ==
    \/ \E p \in Producers : ProducerHead(p)
    \/ \E p \in Producers : ProducerSelect(p)
    \/ \E p \in Producers : ProducerRecheck(p)
    \/ \E p \in Producers : ProducerSend(p)
    \/ \E p \in Producers : ProducerSendOnClosed(p)
    \/ \E p \in Producers : ProducerSendCancelled(p)
    \/ \E p \in Producers : ProducerAddBytes(p)
    \/ \E p \in Producers : ProducerAddDocs(p)
    \/ MonitorTick
    \/ MonitorCancelled
    \/ \E w \in Writers : ConsumerCtxDone(w)
    \/ \E w \in Writers : ConsumerReceive(w)
    \/ \E w \in Writers : ConsumerChanClosed(w)
    \/ \E w \in Writers : ConsumerTick(w)
    \/ \E w \in Writers : ConsumerCheck(w)
    \/ \E w \in Writers : ConsumerInsertOk(w)
    \/ \E w \in Writers : ConsumerInsertFails(w)
    \/ \E w \in Writers : ConsumerRecord(w)
    \/ \E w \in Writers : ConsumerAddBytes(w)
    \/ \E w \in Writers : ConsumerAddDocs(w)
    \/ \E w \in Writers : ConsumerUpdateBytesWritten(w)
    \/ Cancel
    \/ LoggerClose

FairCancel ==
    /\ \A p \in 1..MaxWorkers :
          WF_vars(p \in Producers /\ (ProducerRun(p) \/ ProducerSendCancelled(p)))
    /\ WF_vars(MonitorTick \/ MonitorCancelled)
    /\ \A w \in 1..MaxWriters :
          WF_vars(w \in Writers /\
                  (ConsumerRun(w) \/ ConsumerCtxDone(w) \/ ConsumerInsertOk(w)
                     \/ ConsumerInsertFails(w)))

CancelConfigs ==
    {c \in SmallConfigs : c.target \in {k * DocSize : k \in 1..MaxTargetDocs}}

InitCancel == InitConfig(CancelConfigs) /\ InitState /\ InitIdle

SpecCancel == InitCancel /\ [][NextCancel]_vars /\ FairCancel

(* ------------------------------------- runs without faults, larger target *)
(* The runs without faults with one consumer and a target of               *)
(* CutoffTargetDocs records: large enough for the consumers to reach the    *)
(* soft cutoff (documents may serialize to more than the estimate) while    *)
(* the producers still have more records to send than the channel holds.    *)
CutoffTargetDocs == 8
CutoffConfigs ==
    {c \in [workers : 1..MaxWorkers, writers : {1}, batch : 1..MaxBatch,
             target : {CutoffTargetDocs * DocSize}] :
        c.workers = 1 \/ c.batch = 1}

InitCutoff == InitConfig(CutoffConfigs) /\ InitState /\ InitIdle

SpecCutoff == InitCutoff /\ [][NextNoFault]_vars /\ FairNoFault

(* ------------------------------------------------------------ conditions *)
AllProducersDone == \A p \in Producers : ppc[p] = "done"
AllWritersDone == \A w \in Writers : wpc[w] = "done"
MonitorDone == mpc = "done"
PipelineDone == chanClosed /\ AllProducersDone /\ MonitorDone /\ AllWritersDone
AllExited == AllProducersDone /\ MonitorDone /\ AllWritersDone

(* ------------------------------------------------------------------ main *)
(* main starts Generate and Write in two goroutines and waits in one select *)
(* for the first of their results.  eg.Wait returns once every goroutine of *)
(* the group has returned, with the first non-nil error.  In the runs below *)
(* no signal arrives, so the ctx.Done case of main's select is never ready  *)
(* and an error exit of a group is preceded by no context.Canceled.         *)
GenerateReturned == AllProducersDone /\ MonitorDone
WriteReturned == AllWritersDone

GenerateError ==
    IF \E p \in Producers : pexit[p] = "genErr" THEN "generation"
    ELSE IF mexit = "ctx" \/ \E p \in Producers : pexit[p] \in {"ctxHead", "ctxSend"}
      THEN "canceled"
      ELSE "nil"

WriteError ==
    IF \E w \in Writers : wexit[w] \in {"insertErr", "marshalErr"} THEN "write"
    ELSE IF \E w \in Writers : wexit[w] = "ctx" THEN "canceled"
      ELSE "nil"

(* if err != nil && err != context.Canceled { log.Fatalf(...) }             *)
IsFatal(err) == err \notin {"nil", "canceled"}

(* log.Fatalf and the return of main both end the process, and with it      *)
(* every goroutine.                                                         *)
ProcessAlive == mainPc \in {"wait", "finishing"}

(* case err := <-genErrChan                                                 *)
MainGenerateReturned ==
    /\ ~panicked
    /\ mainPc = "wait"
    /\ GenerateReturned
    /\ mainPc' = IF IsFatal(GenerateError) THEN "fatal" ELSE "finishing"
    /\ UNCHANGED <<pipeVars, fnVars>>

(* case err := <-writeErrChan                                               *)
MainWriteReturned ==
    /\ ~panicked
    /\ mainPc = "wait"
    /\ WriteReturned
    /\ mainPc' = IF IsFatal(WriteError) THEN "fatal" ELSE "finishing"
    /\ UNCHANGED <<pipeVars, fnVars>>

(* time.Sleep, close(progressDone), printFinalStats, return.                *)
MainReturn ==
    /\ ~panicked
    /\ mainPc = "finishing"
    /\ mainPc' = "exited"
    /\ UNCHANGED <<pipeVars, fnVars>>

(* Runs of the whole program in which record synthesis may fail; writes and *)
(* serialization succeed and no signal arrives.                             *)
NextMain ==
    \/ ProcessAlive /\ \E p \in Producers : ProducerHead(p)
    \/ ProcessAlive /\ \E p \in Producers : ProducerSelect(p)
    \/ ProcessAlive /\ \E p \in Producers : ProducerGenerateFails(p)
    \/ ProcessAlive /\ \E p \in Producers : ProducerRecheck(p)
    \/ ProcessAlive /\ \E p \in Producers : ProducerSend(p)
    \/ ProcessAlive /\ \E p \in Producers : ProducerSendOnClosed(p)
    \/ ProcessAlive /\ \E p \in Producers : ProducerSendCancelled(p)
    \/ ProcessAlive /\ \E p \in Producers : ProducerAddBytes(p)
    \/ ProcessAlive /\ \E p \in Producers : ProducerAddDocs(p)
    \/ ProcessAlive /\ MonitorTick
    \/ ProcessAlive /\ MonitorCancelled
    \/ ProcessAlive /\ \E w \in Writers : ConsumerReceive(w)
    \/ ProcessAlive /\ \E w \in Writers : ConsumerChanClosed(w)
    \/ ProcessAlive /\ \E w \in Writers : ConsumerTick(w)
    \/ ProcessAlive /\ \E w \in Writers : ConsumerCheck(w)
    \/ ProcessAlive /\ \E w \in Writers : ConsumerInsertOk(w)
    \/ ProcessAlive /\ \E w \in Writers : ConsumerRecord(w)
    \/ ProcessAlive /\ \E w \in Writers : ConsumerAddBytes(w)
    \/ ProcessAlive /\ \E w \in Writers : ConsumerAddDocs(w)
    \/ ProcessAlive /\ \E w \in Writers : ConsumerUpdateBytesWritten(w)
    \/ MainGenerateReturned
    \/ MainWriteReturned
    \/ MainReturn

FairMain ==
    /\ \A p \in 1..MaxWorkers :
          WF_vars(ProcessAlive /\ p \in Producers /\
                  (ProducerRun(p) \/ ProducerSendCancelled(p)))
    /\ WF_vars(ProcessAlive /\ (MonitorTick \/ MonitorCancelled))
    /\ \A w \in 1..MaxWriters :
          WF_vars(ProcessAlive /\ w \in Writers /\
                  (ConsumerRun(w) \/ ConsumerInsertOk(w)))
    /\ WF_vars(MainGenerateReturned \/ MainWriteReturned \/ MainReturn)

InitMain == InitConfig(SmallConfigs) /\ InitState /\ InitIdle

SpecMain == InitMain /\ [][NextMain]_vars /\ FairMain

(* ------------------------------------------------- model.Generator       *)
(* The functions of the document generator are applied on their own: a run *)
(* starts with the arguments of one call and the only step is its return.  *)
(* The pipeline stays in its initial state.                                *)
Size2KB == 2 * 1024
Size4KB == 4 * 1024
Size8KB == 8 * 1024
Size16KB == 16 * 1024
Size32KB == 32 * 1024
Size64KB == 64 * 1024
Tiers == {Size2KB, Size4KB, Size8KB, Size16KB, Size32KB, Size64KB}

IdleConfigs == [workers : {1}, writers : {1}, batch : {1}, target : {DocSize}]
InitCall(calls) ==
    /\ InitConfig(IdleConfigs)
    /\ InitState
    /\ fnPc = "called"
    /\ call \in calls
    /\ ret = NoCall

Return(fn, result) ==
    /\ fnPc = "called"
    /\ call.fn = fn
    /\ fnPc' = "returned"
    /\ ret' = result
    /\ UNCHANGED <<pipeVars, mainVars, call>>

(* bson.Marshal of the document: the padding field is one string element,  *)
(* type byte, key "padding" and its NUL, int32 length, the bytes, a NUL.   *)
PaddingKeyLen == Len(<<"p", "a", "d", "d", "i", "n", "g">>)
BsonStringElement(n) == 1 + (PaddingKeyLen + 1) + 4 + n + 1
SerializedSize(unpadded, fillerLen) ==
    unpadded - BsonStringElement(0) + BsonStringElement(fillerLen)

(* calculatePadding: currentSize is the size with an empty padding field;  *)
(* the result is the length of the filler it returns.                      *)
calculatePadding_NoOverhead(targetSize, currentSize) ==
    IF currentSize >= targetSize THEN 0 ELSE targetSize - currentSize

calculatePadding(targetSize, currentSize) ==
    IF currentSize >= targetSize
      THEN 0
      ELSE LET paddingNeeded == targetSize - currentSize - PaddingOverhead
           IN  IF paddingNeeded <= 0 THEN 0 ELSE paddingNeeded

(* Unpadded sizes around every tier, and one well below it.                *)
PadWindow == 16
UnpaddedSizes(tier) == {tier \div 2} \cup ((tier - PadWindow)..(tier + PadWindow))
PaddingCalls ==
    {[fn |-> "calculatePadding", tier |-> t, unpadded |-> u] :
        <<t, u>> \in {x \in Tiers \X (1..(Size64KB + PadWindow)) :
                         x[2] \in UnpaddedSizes(x[1])}}

(* padding, err := g.calculatePadding(doc); doc.Padding = padding          *)
CalculatePaddingReturns ==
    LET n == calculatePadding(call.tier, call.unpadded)
    IN  Return("calculatePadding",
               [fillerLen |-> n, finalSize |-> SerializedSize(call.unpadded, n)])

NextPadding == CalculatePaddingReturns
SpecPadding == InitCall(PaddingCalls) /\ [][NextPadding]_vars

(* generateCompressionResistantPadding.  A uint32 is the set of the bits   *)
(* that are 1 in it, bit 0 the lowest: a shift moves the bits and drops    *)
(* those that leave the word, ^ is the symmetric difference, & the         *)
(* intersection, and byte(x) keeps the bits 0..7.                          *)
WordBits == 0..31
Shl(w, k) == {i + k : i \in {j \in w : j + k \in WordBits}}
Shr(w, k) == {i - k : i \in {j \in w : j >= k}}
Xor(a, b) == (a \ b) \cup (b \ a)
And(a, b) == a \cap b
ByteOf(w) == w \cap (0..7)

(* 0xD0000001                                                              *)
FeedbackMask == {0, 28, 30, 31}

(* seed = (seed << 1) ^ ((seed >> 31) & 0xD0000001)                        *)
LfsrStep(seed) == Xor(Shl(seed, 1), And(Shr(seed, 31), FeedbackMask))

(* padding[i] = byte(seed ^ (seed >> 8) ^ (seed >> 16) ^ (seed >> 24))     *)
PaddingByte(seed) ==
    ByteOf(Xor(Xor(Xor(seed, Shr(seed, 8)), Shr(seed, 16)), Shr(seed, 24)))

RECURSIVE generateCompressionResistantPadding(_, _)
generateCompressionResistantPadding(seed, size) ==
    IF size = 0
      THEN <<>>
      ELSE LET next == LfsrStep(seed)
           IN  <<PaddingByte(next)>> \o
               generateCompressionResistantPadding(next, size - 1)

(* seed := uint32(uint64(time.Now().UnixNano()) ^ uint64(size)): any word. *)
(* The seeds explored are the words over a few bit positions of every      *)
(* byte, and the word of all ones.                                         *)
MaxFillerLen == 40
SeedBitChoices == {0, 1, 7, 8, 15, 16, 24, 31}
Seeds == (SUBSET SeedBitChoices) \cup {WordBits}
FillerCalls ==
    [fn : {"generateCompressionResistantPadding"}, seed : Seeds,
     size : 1..MaxFillerLen]

GeneratePaddingReturns ==
    Return("generateCompressionResistantPadding",
           [filler |-> generateCompressionResistantPadding(call.seed, call.size)])

NextFiller == GeneratePaddingReturns
SpecFiller == InitCall(FillerCalls) /\ [][NextFiller]_vars

(* ------------------------------------------------- statistics calls      *)
(* Sample logs of one operation type: every log of up to MaxSamples         *)
(* latencies, and the log of the hundred latencies 1000, 990, ..., 10.      *)
MaxSamples == 4
LatencyChoices == {10, 20, 30}
HundredSamples == [i \in 1..100 |-> Operation("INSERT", 10 * (101 - i), TRUE)]
RECURSIVE SeqsUpTo(_, _)
SeqsUpTo(S, n) ==
    IF n = 0 THEN {<<>>}
    ELSE LET shorter == SeqsUpTo(S, n - 1)
         IN  shorter \cup {Append(q, x) : q \in shorter, x \in S}
SampleLogs ==
    {[i \in 1..Len(q) |-> Operation("INSERT", q[i], TRUE)] :
        q \in SeqsUpTo(LatencyChoices, MaxSamples) \ {<<>>}}
      \cup {HundredSamples}
StatsCalls ==
    [fn : {"formatOperationStatsInline", "writeFinalOperationStats"},
     ops : SampleLogs]

FormatInlineReturns ==
    Return("formatOperationStatsInline",
           formatOperationStatsInline("INSERT", call.ops))
WriteFinalOperationStatsReturns ==
    Return("writeFinalOperationStats",
           writeFinalOperationStats("INSERT", call.ops))

NextStats ==
    \/ FormatInlineReturns
    \/ WriteFinalOperationStatsReturns
SpecStats == InitCall(StatsCalls) /\ [][NextStats]_vars

(* ------------------------------------------------------ logger on its own *)
(* RecordOperation, WriteStats and WriteFinalStats are called in any order  *)
(* by the logger's owner; the pipeline stays in its initial state.          *)
MaxLogOps == 3
MaxSnapshots == 3
OpTypes == {"INSERT", "READ"}

(* for _, op := range l.operations: a snapshot reads the whole sample log.  *)
SnapshotOps_SinceLast(ops, last) == SubSeq(ops, last + 1, Len(ops))
SnapshotOps(ops, last) == ops

(* opsSinceLastLog := totalOps - l.lastOpCount                              *)
OpsSinceLastLog_Cumulative(totalOps, last) == totalOps
OpsSinceLastLog(totalOps, last) == totalOps - last

(* The values one WriteStats line prints.                                   *)
PeriodicReport(ops, last) ==
    [kind |-> "periodic",
     totalOps |-> Len(ops),
     opsSinceLastLog |-> OpsSinceLastLog(Len(ops), last),
     stats |-> [t \in TypesOf(SnapshotOps(ops, last)) |->
                   formatOperationStatsInline(
                       t, OpsOfType(SnapshotOps(ops, last), t))]]

LogRecordOperation ==
    /\ ~loggerClosed
    /\ Len(operations) < MaxLogOps
    /\ \E t \in OpTypes, lat \in LatencyChoices, ok \in BOOLEAN :
          RecordOperation(t, lat, ok)
    /\ UNCHANGED <<cfgVars, mainVars, fnVars, genVars, chanVars, ctxCancelled,
                   panicked, prodVars, monVars, consVars, wrVars,
                   logBytesWritten, lastOpCount, now, lastLogTime, logFile,
                   reports, loggerClosed>>

(* Time is counted in snapshot calls: the clock reading `now` of a call is  *)
(* one more than that of the call before it.                                *)
WriteStats_NoEmptyCheck ==
    /\ ~loggerClosed
    /\ now < MaxSnapshots
    /\ now' = now + 1
    /\ logFile' = Append(logFile, "statsLine")
    /\ reports' = Append(reports, PeriodicReport(operations, lastOpCount))
    /\ lastLogTime' = now'
    /\ lastOpCount' = Len(operations)
    /\ UNCHANGED <<cfgVars, mainVars, fnVars, genVars, chanVars, ctxCancelled,
                   panicked, prodVars, monVars, consVars, wrVars, operations,
                   successCount, errorCount, logBytesWritten, loggerClosed>>

(* WriteStats: returns at once when the sample log is empty; otherwise one  *)
(* line is written, lastLogTime is set to the time of the call and          *)
(* lastOpCount to the number of samples.                                    *)
WriteStats ==
    /\ ~loggerClosed
    /\ now < MaxSnapshots
    /\ now' = now + 1
    /\ IF Len(operations) = 0
         THEN UNCHANGED <<logFile, reports, lastLogTime, lastOpCount>>
         ELSE /\ logFile' = Append(logFile, "statsLine")
              /\ reports' = Append(reports, PeriodicReport(operations, lastOpCount))
              /\ lastLogTime' = now'
              /\ lastOpCount' = Len(operations)
    /\ UNCHANGED <<cfgVars, mainVars, fnVars, genVars, chanVars, ctxCancelled,
                   panicked, prodVars, monVars, consVars, wrVars, operations,
                   successCount, errorCount, logBytesWritten, loggerClosed>>

(* WriteFinalStats called on its own, as Close calls it.                    *)
WriteFinalStats ==
    /\ ~loggerClosed
    /\ now < MaxSnapshots
    /\ now' = now + 1
    /\ logFile' = logFile \o FinalStatsLines(operations)
    /\ reports' = reports \o FinalReports(operations)
    /\ UNCHANGED <<cfgVars, mainVars, fnVars, genVars, chanVars, ctxCancelled,
                   panicked, prodVars, monVars, consVars, wrVars, operations,
                   successCount, errorCount, logBytesWritten, lastOpCount,
                   lastLogTime, loggerClosed>>

NextLogger ==
    \/ LogRecordOperation
    \/ WriteStats
    \/ WriteFinalStats
InitLogger == InitConfig(IdleConfigs) /\ InitState /\ InitIdle
SpecLogger == InitLogger /\ [][NextLogger]_vars

(* ------------------------------------------ pipeline with periodic logging *)
(* StartPeriodicLogging calls WriteStats on every tick of its own ticker,   *)
(* concurrently with the consumers' RecordOperation calls.  One producer    *)
(* feeds the consumers; writes succeed or fail.                             *)
LoggedConfigs == {c \in CancelConfigs : c.workers = 1}

NextLogged ==
    \/ \E p \in Producers : ProducerHead(p)
    \/ \E p \in Producers : ProducerSelect(p)
    \/ \E p \in Producers : ProducerRecheck(p)
    \/ \E p \in Producers : ProducerSend(p)
    \/ \E p \in Producers : ProducerAddBytes(p)
    \/ \E p \in Producers : ProducerAddDocs(p)
    \/ MonitorTick
    \/ \E w \in Writers : ConsumerCtxDone(w)
    \/ \E w \in Writers : ConsumerReceive(w)
    \/ \E w \in Writers : ConsumerChanClosed(w)
    \/ \E w \in Writers : ConsumerTick(w)
    \/ \E w \in Writers : ConsumerCheck(w)
    \/ \E w \in Writers : ConsumerMarshalFails(w)
    \/ \E w \in Writers : ConsumerInsertOk(w)
    \/ \E w \in Writers : ConsumerInsertFails(w)
    \/ \E w \in Writers : ConsumerRecord(w)
    \/ \E w \in Writers : ConsumerAddBytes(w)
    \/ \E w \in Writers : ConsumerAddDocs(w)
    \/ \E w \in Writers : ConsumerUpdateBytesWritten(w)
    \/ WriteStats
    \/ LoggerClose

InitLogged == InitConfig(LoggedConfigs) /\ InitState /\ InitIdle

SpecLogged == InitLogged /\ [][NextLogged]_vars

(* --------------------------------------------------- determineDocumentSize *)
(* Every threshold of the function is a whole number of GiB, so              *)
(* targetBytes >= k GiB holds exactly when the whole GiB in targetBytes are  *)
(* at least k: the argument is carried as targetBytes / 2^30, rounded down.  *)
TB == 1024

(* strings.ToUpper on the spellings the flag is given in.                    *)
ToUpper(str) ==
    CASE str = "2kb" -> "2KB"
      [] str = "64kb" -> "64KB"
      [] OTHER -> str

determineDocumentSize(docSizeStr, targetGB) ==
    IF docSizeStr # "auto"
    THEN CASE ToUpper(docSizeStr) = "2KB" -> [size |-> Size2KB, err |-> "nil"]
           [] ToUpper(docSizeStr) = "4KB" -> [size |-> Size4KB, err |-> "nil"]
           [] ToUpper(docSizeStr) = "8KB" -> [size |-> Size8KB, err |-> "nil"]
           [] ToUpper(docSizeStr) = "16KB" -> [size |-> Size16KB, err |-> "nil"]
           [] ToUpper(docSizeStr) = "32KB" -> [size |-> Size32KB, err |-> "nil"]
           [] ToUpper(docSizeStr) = "64KB" -> [size |-> Size64KB, err |-> "nil"]
           [] OTHER -> [size |-> 0, err |-> "invalid document size"]
    ELSE IF targetGB >= 32 * TB THEN [size |-> Size64KB, err |-> "nil"]
    ELSE IF targetGB >= 16 * TB THEN [size |-> Size32KB, err |-> "nil"]
    ELSE IF targetGB >= 8 * TB THEN [size |-> Size16KB, err |-> "nil"]
    ELSE IF targetGB >= 4 * TB THEN [size |-> Size8KB, err |-> "nil"]
    ELSE IF targetGB >= 2 * TB THEN [size |-> Size4KB, err |-> "nil"]
    ELSE [size |-> Size2KB, err |-> "nil"]

TierWindow == 2
DocSizeStrs == {"auto", "2KB", "2kb", "4KB", "8KB", "16KB", "32KB", "64KB",
                "64kb", "1KB"}
SizeMarksGB == {100, TB, 2 * TB, 4 * TB, 8 * TB, 16 * TB, 32 * TB}
TargetGBs ==
    {0} \cup UNION {(m - TierWindow)..(m + TierWindow) : m \in SizeMarksGB}
TierCalls ==
    [fn : {"determineDocumentSize"}, docSizeStr : DocSizeStrs,
     targetGB : TargetGBs]

DetermineDocumentSizeReturns ==
    /\ call.fn = "determineDocumentSize"
    /\ Return("determineDocumentSize",
              determineDocumentSize(call.docSizeStr, call.targetGB))

NextTier == DetermineDocumentSizeReturns
SpecTier == InitCall(TierCalls) /\ [][NextTier]_vars

(* ------------------------------------------------------ Generator.Generate *)
(* A document is carried as the lengths of its slices, the kinds of value   *)
(* in its metadata map and the length of its padding string.                *)
NewGenerator(targetSize) == [targetSize |-> targetSize]
TargetSize(g) == g.targetSize
TargetKB(g) == g.targetSize \div 1024

(* gofakeit IntRange(min, max): any integer from min to max, both included. *)
IntRange(min, max) == min..max

calculateOrderCount_FromZero(g) ==
    IF TargetKB(g) <= 2 THEN IntRange(0, 1)
    ELSE IF TargetKB(g) <= 4 THEN IntRange(1, 2)
    ELSE IntRange(0, TargetKB(g) \div 8 + 3)

calculateOrderCount_NoCeiling(g) ==
    IF TargetKB(g) <= 2 THEN IntRange(0, 1)
    ELSE IF TargetKB(g) <= 4 THEN IntRange(1, 2)
    ELSE LET quotient == TargetKB(g) \div 8
             baseCount == IF quotient < 1 THEN 1 ELSE quotient
         IN  IntRange(baseCount, baseCount + 3)

calculateOrderCount(g) ==
    IF TargetKB(g) <= 2 THEN IntRange(0, 1)
    ELSE IF TargetKB(g) <= 4 THEN IntRange(1, 2)
    ELSE LET quotient == TargetKB(g) \div 8
             atLeastOne == IF quotient < 1 THEN 1 ELSE quotient
             baseCount == IF atLeastOne > 20 THEN 20 ELSE atLeastOne
         IN  IntRange(baseCount, baseCount + 3)

AddressCounts(g) == IF TargetKB(g) <= 4 THEN {1} ELSE IntRange(2, 6)
PaymentCounts(g) == IF TargetKB(g) <= 4 THEN {1} ELSE IntRange(1, 5)
NoteCounts(g) == IF TargetKB(g) <= 4 THEN {1} ELSE IntRange(3, 8)
TagCounts(g) == IF TargetKB(g) <= 4 THEN {2} ELSE IntRange(5, 15)

(* generateMetadata: each of the 5 to 15 entries takes one of four kinds of *)
(* value; the small tiers hold the one string entry "created_by".           *)
MetadataKinds == {"string", "int", "bool", "float64"}
MetadataKindSets(g) ==
    IF TargetKB(g) <= 4 THEN {{"string"}} ELSE SUBSET MetadataKinds \ {{}}

(* bson.Marshal returns an error for a value of a kind it has no encoder    *)
(* for; the struct fields are strings, numbers, booleans, times, ObjectIDs  *)
(* and slices of such structs.                                              *)
BsonEncodable == {"string", "int", "bool", "float64", "time", "objectid"}
MarshalFails(doc) == doc.metadata \ BsonEncodable # {}

(* Serialized sizes of the document before padding that Generate is run on. *)
DocUnpaddedSizes(g) == {g.targetSize \div 2, g.targetSize + 1}

(* The nil *CustomerDocument that Generate returns with an error.           *)
NilDocument == [nil |-> TRUE]

(* Target sizes calculateOrderCount is applied to: the tiers, and sizes     *)
(* between and beyond them, where the floor and the ceiling of the base    *)
(* count apply.                                                             *)
OrderCountSizes ==
    Tiers \cup {k * 1024 : k \in {1, 3, 5, 7, 9, 160, 167, 168, 1024}}

DocCalls ==
    [fn : {"TargetSize", "Generate"}, targetSize : Tiers]
      \cup [fn : {"calculateOrderCount"}, targetSize : OrderCountSizes]

TargetSizeReturns ==
    /\ call.fn = "TargetSize"
    /\ Return("TargetSize",
              [size |-> TargetSize(NewGenerator(call.targetSize))])

GenerateReturns ==
    /\ fnPc = "called"
    /\ call.fn = "Generate"
    /\ LET g == NewGenerator(call.targetSize)
       IN  \E numAddresses \in AddressCounts(g),
              numPayments \in PaymentCounts(g),
              numOrders \in calculateOrderCount(g),
              kinds \in MetadataKindSets(g),
              numNotes \in NoteCounts(g),
              numTags \in TagCounts(g),
              currentSize \in DocUnpaddedSizes(g) :
             LET doc == [addresses |-> numAddresses,
                         paymentMethods |-> numPayments,
                         orders |-> numOrders,
                         metadata |-> kinds,
                         notes |-> numNotes,
                         tags |-> numTags,
                         padding |-> 0]
             IN  IF MarshalFails(doc)
                 THEN Return("Generate", [doc |-> NilDocument, err |-> "marshal"])
                 ELSE Return("Generate",
                             [doc |-> [doc EXCEPT !.padding =
                                          calculatePadding(g.targetSize,
                                                           currentSize)],
                              err |-> "nil"])

CalculateOrderCountReturns ==
    /\ fnPc = "called"
    /\ call.fn = "calculateOrderCount"
    /\ \E numOrders \in calculateOrderCount(NewGenerator(call.targetSize)) :
          Return("calculateOrderCount", [count |-> numOrders])

NextDoc ==
    \/ TargetSizeReturns
    \/ GenerateReturns
    \/ CalculateOrderCountReturns
SpecDoc == InitCall(DocCalls) /\ [][NextDoc]_vars

(* ================================================================ claims *)

(* C1: generatedBytes never decreases; the channel is closed at most once,  *)
(* by a step of the monitor and of no producer, and never in a state where  *)
(* generatedBytes < targetBytes.                                            *)
C1_CloseOnceByMonitor ==
    [][ /\ bytesGenerated' >= bytesGenerated
        /\ closeCount' <= 1
        /\ (chanClosed => chanClosed')
        /\ (closeCount' # closeCount \/ chanClosed' # chanClosed) =>
              /\ mpc = "run" /\ mpc' = "done" /\ mexit' = "closed"
              /\ ppc' = ppc
              /\ bytesGenerated >= targetBytes ]_vars

(* Several producers saw the target met and the monitor closed the channel. *)
C1_Witness ==
    /\ chanClosed
    /\ closeCount = 1
    /\ Cardinality({p \in Producers : pexit[p] = "targetMet"}) >= 2

(* C3 as stated: writtenBytes never exceeds targetBytes plus the serialized *)
(* size of one maximal batch (batchSize records), and never decreases.      *)
C3_WrittenWithinOneBatch ==
    /\ [](bytesWritten <= targetBytes + batchSize * MaxSerializedSize)
    /\ [][bytesWritten' >= bytesWritten]_vars

(* C4 as stated: generatedBytes never exceeds targetBytes by more than the  *)
(* size estimate of one record.                                             *)
C4_GeneratedWithinOneRecord ==
    bytesGenerated <= targetBytes + DocSize

(* C5 as stated: a failed bulk write does not halt the pool: a worker whose *)
(* flush failed on the batch-full or ticker path goes on with its loop, and *)
(* no worker is cancelled unless the shared context was cancelled or a      *)
(* serialization failed.                                                    *)
C5_FailedWriteDoesNotHalt ==
    /\ \A w \in Writers :
          (wpc[w] = "done" /\ wexit[w] = "insertErr") =>
              after[w] \in {"ctx", "closed", "cutoff"}
    /\ (\E w \in Writers : wexit[w] = "ctx" \/ after[w] = "ctx") =>
          (ctxCancelled \/ \E w \in Writers : wexit[w] = "marshalErr")

(* C7 as stated: the flush a worker issues from its ctx.Done branch         *)
(* persists the buffered batch.                                             *)
C7_CancelFlushPersists ==
    \A w \in Writers :
        (after[w] = "ctx" /\ wpc[w] \in {"record", "addBytes", "addDocs", "setBW"})
            => insertOk[w]

(* C8: no ghost counts: the records counted never exceed the sends that     *)
(* completed, and a producer that leaves the send select through ctx.Done   *)
(* completes no send and adds to no counter.                                *)
C8_NoGhostCounts ==
    /\ [](docsGenerated <= sent /\ bytesGenerated <= sent * DocSize)
    /\ [][ \A p \in 1..RaceWorkers :
              (p \in Producers /\ ppc[p] = "send" /\ ppc'[p] = "done") =>
                  /\ pexit'[p] = "ctxSend"
                  /\ sent' = sent /\ chanLen' = chanLen
                  /\ bytesGenerated' = bytesGenerated
                  /\ docsGenerated' = docsGenerated ]_vars

(* A producer gave up its send after the cancellation while records sent    *)
(* before were counted.                                                     *)
C8_Witness ==
    /\ ctxCancelled
    /\ \E p \in Producers : ppc[p] = "done" /\ pexit[p] = "ctxSend"
    /\ sent > 0
    /\ docsGenerated = sent

(* C10 as stated: a closed log file ends with the final statistics block.   *)
C10_ClosedLogEndsWithFinalStats ==
    loggerClosed => logFile[Len(logFile)] = "finalOperationStats"

(* C2 as stated: without cancellation and without a failing write the       *)
(* pipeline completes.                                                      *)
C2_PipelineCompletes == <>PipelineDone

(* C6 as stated: when every bulk write fails the run still completes, with  *)
(* successCount = 0 and errorCount = the number of recorded operations.     *)
C6_CompletesWithAllFailures ==
    <>(PipelineDone /\ successCount = 0 /\ errorCount = Len(operations))

(* C9 as stated: after a cancellation every producer, the monitor and every *)
(* consumer exits.                                                          *)
C9_CancelStopsEveryone == ctxCancelled ~> AllExited

(* C11 as stated: a synthesis error of one producer is propagated as a      *)
(* cancellation that reaches both pools: the producers, the monitor and the *)
(* consumers all observe it and return.                                     *)
GenerationFailed == \E p \in Producers : ppc[p] = "done" /\ pexit[p] = "genErr"
C11_GenErrorStopsBothPools ==
    GenerationFailed ~> AllExited

C13_FillerNotRepeating ==
    (fnPc = "returned" /\ call.fn = "generateCompressionResistantPadding") =>
        LET f == ret.filler
            n == Len(f)
        IN  /\ n >= 2 => \E i \in 1..n : f[i] # f[1]
            /\ \A p \in 1..32 :
                   p < n => \E i \in 1..(n - p) : f[i + p] # f[i]

(* C14 as stated: when targetBytes = k * (record size), a run that          *)
(* completed without cancellation and without a failed write generated k    *)
(* records give or take one and wrote within one batch's worth of           *)
(* targetBytes; no batch ever holds more than batchSize records.            *)
CompletedCleanly ==
    /\ PipelineDone
    /\ ~ctxCancelled
    /\ \A w \in Writers : wexit[w] \in {"closed", "cutoff"}
C14_ExactRecordCount ==
    /\ \A w \in Writers : batchLen[w] <= batchSize
    /\ (CompletedCleanly /\ targetBytes % DocSize = 0) =>
          LET k == targetBytes \div DocSize
          IN  /\ k - 1 <= docsGenerated /\ docsGenerated <= k + 1
              /\ targetBytes - batchSize * MaxSerializedSize <= bytesWritten
              /\ bytesWritten <= targetBytes + batchSize * MaxSerializedSize

(* C16: every percentile of the ladder reported for a non-empty sample log  *)
(* of n latencies is the element at index min(floor(p * n), n - 1) of the   *)
(* ascending-sorted latencies, i.e. a sample v with at most that many       *)
(* samples below it and more than that many samples not above it; for the   *)
(* hundred samples 10, 20, ..., 1000 the 99th percentile is 1000.           *)
IsSortedElementAt(lat, k, v) ==
    /\ \E i \in 1..Len(lat) : lat[i] = v
    /\ Cardinality({i \in 1..Len(lat) : lat[i] < v}) <= k
    /\ Cardinality({i \in 1..Len(lat) : lat[i] <= v}) > k
FloorIndex(n, num, den) ==
    IF (n * num) \div den < n - 1 THEN (n * num) \div den ELSE n - 1
C16_PercentileIsSortedElement ==
    (fnPc = "returned" /\ call.fn \in {"formatOperationStatsInline",
                                        "writeFinalOperationStats"}) =>
        LET lat == Latencies(call.ops)
            n == Len(lat)
        IN  /\ call.fn = "formatOperationStatsInline" =>
                  IsSortedElementAt(lat, FloorIndex(n, 90, 100), ret.p90)
            /\ IsSortedElementAt(lat, FloorIndex(n, 99, 100), ret.p99)
            /\ IsSortedElementAt(lat, FloorIndex(n, 999, 1000), ret.p999)
            /\ IsSortedElementAt(lat, FloorIndex(n, 9999, 10000), ret.p9999)
            /\ call.fn = "writeFinalOperationStats" =>
                  /\ IsSortedElementAt(lat, FloorIndex(n, 50, 100), ret.p50)
                  /\ IsSortedElementAt(lat, FloorIndex(n, 95, 100), ret.p95)
                  /\ IsSortedElementAt(lat, FloorIndex(n, 99999, 100000),
                                       ret.p99999)
            /\ call.ops = HundredSamples => ret.p99 = 1000

(* The hundred samples, recorded in descending order, were summarised.      *)
C16_Witness ==
    /\ fnPc = "returned"
    /\ call.fn = "formatOperationStatsInline"
    /\ call.ops = HundredSamples
    /\ ret.p99 = 1000 /\ ret.p90 = 910 /\ ret.min = 10

(* C15: two consecutive WriteStats lines with no RecordOperation between    *)
(* them report the same per-type counts, min, max and percentiles, and a    *)
(* snapshot leaves the sample log and the success/error counters as they    *)
(* were.                                                                    *)
C15_SnapshotIdempotent ==
    /\ [](\A i \in 1..(Len(reports) - 1) :
             (/\ reports[i].kind = "periodic"
              /\ reports[i + 1].kind = "periodic"
              /\ reports[i].totalOps = reports[i + 1].totalOps)
                 => reports[i + 1].stats = reports[i].stats)
    /\ [][Len(reports') > Len(reports) =>
             /\ operations' = operations
             /\ successCount' = successCount
             /\ errorCount' = errorCount]_vars

(* Two snapshots in a row of a log holding both types and several           *)
(* latencies.                                                               *)
C15_Witness ==
    /\ Len(reports) >= 2
    /\ reports[1].kind = "periodic" /\ reports[2].kind = "periodic"
    /\ reports[1].totalOps = reports[2].totalOps
    /\ TypesOf(operations) = OpTypes
    /\ \E i, j \in 1..Len(operations) :
          /\ operations[i].type = operations[j].type
          /\ operations[i].latencyUs < operations[j].latencyUs

(* C17: in auto mode the tier follows the table of the README: below 100GB  *)
(* 2KB, below 1TB 4KB, below 2TB 8KB, below 4TB 16KB, below 8TB 32KB, 8TB   *)
(* or more 64KB.                                                            *)
DocumentedTier(targetGB) ==
    IF targetGB < 100 THEN Size2KB
    ELSE IF targetGB < TB THEN Size4KB
    ELSE IF targetGB < 2 * TB THEN Size8KB
    ELSE IF targetGB < 4 * TB THEN Size16KB
    ELSE IF targetGB < 8 * TB THEN Size32KB
    ELSE Size64KB
C17_AutoTierFollowsTable ==
    (fnPc = "returned" /\ call.fn = "determineDocumentSize"
                      /\ call.docSizeStr = "auto")
        => (ret.err = "nil" /\ ret.size = DocumentedTier(call.targetGB))

GenerateDone(tier) ==
    fnPc = "returned" /\ call.fn = "Generate" /\ call.targetSize = tier

(* C18: every document generated for the 2KB tier has exactly one address,  *)
(* exactly one payment method and no orders.                                *)
C18_MinimalStructure2KB ==
    GenerateDone(Size2KB) =>
        /\ ret.err = "nil"
        /\ ret.doc.addresses = 1
        /\ ret.doc.paymentMethods = 1
        /\ ret.doc.orders = 0

(* C19: every document generated for the 64KB tier has between 12 and 14    *)
(* orders.                                                                  *)
C19_Orders64KB ==
    GenerateDone(Size64KB) =>
        (ret.err = "nil" /\ ret.doc.orders \in 12..14)

(* C20: for every tier, TargetSize of a new generator returns the tier and  *)
(* Generate returns a document and no error; from the 8KB tier upwards the  *)
(* document has at least one order and at least one address.                *)
C20_TiersGenerate ==
    /\ (fnPc = "returned" /\ call.fn = "TargetSize")
          => ret.size = call.targetSize
    /\ \A tier \in Tiers :
          GenerateDone(tier) =>
              /\ ret.err = "nil"
              /\ ret.doc # NilDocument
              /\ tier >= Size8KB =>
                    (ret.doc.orders >= 1 /\ ret.doc.addresses >= 1)

(* An 8KB document with the fewest orders and addresses the code can draw.  *)
C20_Witness ==
    /\ GenerateDone(Size8KB)
    /\ ret.err = "nil"
    /\ ret.doc.orders = 1
    /\ ret.doc.addresses = 2

(* C21: a consumer worker discards no record it has received: what it has   *)
(* received and not yet passed to a flush is exactly its buffered batch, a  *)
(* record is passed to at most one flush, and when the worker has returned, *)
(* by cutoff, closure, cancellation or an error, every record it received   *)
(* has been passed to one flush.                                            *)
InFlush(w) == wpc[w] \in {"insert", "record", "addBytes", "addDocs", "setBW"}
C21_NoReceivedRecordDiscarded ==
    \A w \in Writers :
        /\ flushed[w] <= received[w]
        /\ wpc[w] \in {"select", "check"} => received[w] - flushed[w] = batchLen[w]
        /\ InFlush(w) => (flushed[w] = received[w] /\ batchLen[w] > 0)
        /\ wpc[w] = "done" => flushed[w] = received[w]

(* Two workers have returned, one by the soft cutoff with the record on     *)
(* which it saw the cutoff, the other by cancellation with a buffered       *)
(* record.                                                                  *)
C21_Witness ==
    \E w1, w2 \in Writers :
        /\ wpc[w1] = "done" /\ wexit[w1] = "cutoff" /\ received[w1] >= 1
        /\ wpc[w2] = "done" /\ wexit[w2] = "ctx" /\ received[w2] >= 1
        /\ flushed[w1] = received[w1] /\ flushed[w2] = received[w2]

(* C22: every batch passed to a store write holds between one and batchSize *)
(* records; at the head of the loop a worker's batch holds fewer than       *)
(* batchSize records; and a batch is changed by no step but a step of the   *)
(* worker that owns it.                                                     *)
C22_BatchBounded ==
    /\ [](\A w \in Writers :
             /\ InFlush(w) => (batchLen[w] >= 1 /\ batchLen[w] <= batchSize)
             /\ wpc[w] = "select" => batchLen[w] < batchSize
             /\ batchLen[w] <= batchSize)
    /\ [][\A w \in Writers :
             batchLen'[w] # batchLen[w] =>
                 /\ wpc'[w] # wpc[w]
                 /\ \A v \in Writers \ {w} :
                       batchLen'[v] = batchLen[v] /\ wpc'[v] = wpc[v]]_vars

(* A full batch of two records is at the store write.                       *)
C22_Witness ==
    \E w \in Writers :
        /\ wpc[w] = "insert" /\ after[w] = "full"
        /\ batchLen[w] = batchSize /\ batchSize >= 2

(* C23: a non-empty batch that a consumer worker holds at the head of its   *)
(* loop is eventually flushed, the ticker firing when no other record       *)
(* arrives, so that every record appended to a batch is eventually passed   *)
(* to a flush.                                                              *)
C23_BufferedBatchFlushed ==
    /\ \A w \in 1..MaxWriters :
          (w \in Writers /\ wpc[w] = "select" /\ batchLen[w] > 0)
              ~> (w \in Writers /\ InFlush(w))
    /\ \A w \in 1..MaxWriters : \A n \in 1..(2 * MaxTargetDocs) :
          (w \in Writers /\ received[w] >= n)
              ~> (w \in Writers /\ flushed[w] >= n)

(* C24: a flush whose records all serialize appends one sample per record   *)
(* of its batch, each with the outcome of the bulk write as its success     *)
(* flag and the batch latency divided by the batch length as its latency,   *)
(* and then adds the serialized sizes of the batch to writtenBytes and the  *)
(* batch length to docsWritten, whether the write failed or not.            *)
RECURSIVE SumOver(_, _)
SumOver(f, S) ==
    IF S = {} THEN 0
    ELSE LET x == CHOOSE y \in S : TRUE IN f[x] + SumOver(f, S \ {x})

(* Records of the worker's flushes that are past the serialization.         *)
Serialized(w) ==
    flushed[w] - (IF wexit[w] = "marshalErr" THEN batchLen[w] ELSE 0)
SamplesDue(w) ==
    Serialized(w) - (IF wpc[w] = "insert" THEN batchLen[w]
                     ELSE IF wpc[w] = "record" THEN batchLen[w] - recI[w]
                     ELSE 0)
DocsDue(w) ==
    Serialized(w) - (IF wpc[w] \in {"insert", "record", "addBytes", "addDocs"}
                     THEN batchLen[w] ELSE 0)
BytesCounted(w) ==
    Serialized(w) - (IF wpc[w] \in {"insert", "record", "addBytes"}
                     THEN batchLen[w] ELSE 0)

C24_FlushAccounting ==
    /\ [](/\ Len(operations) = SumOver([w \in Writers |-> SamplesDue(w)], Writers)
          /\ successCount + errorCount = Len(operations)
          /\ docsWritten = SumOver([w \in Writers |-> DocsDue(w)], Writers)
          /\ bytesWritten >=
                 PaddedSize * SumOver([w \in Writers |-> BytesCounted(w)], Writers)
          /\ bytesWritten <=
                 OversizedSize * SumOver([w \in Writers |-> BytesCounted(w)], Writers)
          /\ \A w \in Writers : wpc[w] = "addBytes" => recI[w] = batchLen[w])
    /\ [][\A w \in Writers :
             /\ (wpc[w] = "record" /\ recI'[w] # recI[w]) =>
                    /\ operations' =
                          Append(operations,
                                 [type |-> "INSERT",
                                  latencyUs |-> latencyUs[w] \div batchLen[w],
                                  success |-> insertOk[w]])
                    /\ recI'[w] = recI[w] + 1
                    /\ successCount' = successCount + (IF insertOk[w] THEN 1 ELSE 0)
                    /\ errorCount' = errorCount + (IF insertOk[w] THEN 0 ELSE 1)
             /\ (wpc[w] \in {"record", "addBytes", "addDocs"} /\ wpc'[w] # "done") =>
                    /\ insertOk'[w] = insertOk[w]
                    /\ latencyUs'[w] = latencyUs[w]
                    /\ batchLen'[w] = batchLen[w]
             /\ (wpc[w] = "addBytes" /\ wpc'[w] # wpc[w]) =>
                    bytesWritten' - bytesWritten \in BatchTotals(batchLen[w])
             /\ (wpc[w] = "addDocs" /\ wpc'[w] # wpc[w]) =>
                    docsWritten' = docsWritten + batchLen[w]]_vars

(* A failed write of a batch of two has been recorded as two failed samples *)
(* of half the batch latency and counted in both counters.                  *)
C24_Witness ==
    \E w \in Writers :
        /\ wpc[w] = "setBW" /\ ~insertOk[w] /\ batchLen[w] = 2
        /\ Len(operations) = 2 /\ errorCount = 2 /\ docsWritten = 2
        /\ bytesWritten \in BatchTotals(2)
        /\ \A i \in 1..2 :
              operations[i] = [type |-> "INSERT", success |-> FALSE,
                               latencyUs |-> latencyUs[w] \div 2]

(* C25: on every receive the worker compares writtenBytes with targetBytes  *)
(* before it buffers the record, so at the comparison the batch holds only  *)
(* the records received earlier; a worker that has seen the cutoff is in    *)
(* its last flush or has returned, and so receives nothing more.            *)
C25_CutoffCheckedBeforeBuffering ==
    \A w \in Writers :
        /\ wpc[w] = "check" => batchLen[w] = received[w] - flushed[w] - 1
        /\ after[w] = "cutoff" => (InFlush(w) \/ wpc[w] = "done")

(* C26: a producer that reads generatedBytes >= targetBytes at the head of  *)
(* its loop returns without generating; one that reads generatedBytes +     *)
(* estimate > targetBytes after generating returns without sending, and     *)
(* neither changes a counter or the channel; a producer reaches its send    *)
(* only from a read with generatedBytes + estimate <= targetBytes, and only *)
(* a producer at its send sends.                                            *)
C26_ProducerChecks ==
    [][/\ \A p \in Producers :
             /\ (ppc[p] = "head" /\ ppc'[p] # ppc[p]) =>
                    IF bytesGenerated >= targetBytes
                    THEN /\ ppc'[p] = "done" /\ pexit'[p] = "targetMet"
                         /\ UNCHANGED <<genVars, chanVars>>
                    ELSE ppc'[p] = "select" /\ UNCHANGED <<genVars, chanVars>>
             /\ (ppc[p] = "recheck" /\ ppc'[p] # ppc[p]) =>
                    IF bytesGenerated + DocSize > targetBytes
                    THEN /\ ppc'[p] = "done" /\ pexit'[p] = "overshoot"
                         /\ UNCHANGED <<genVars, chanVars>>
                    ELSE ppc'[p] = "send" /\ UNCHANGED <<genVars, chanVars>>
             /\ (ppc'[p] = "send" /\ ppc[p] # "send") =>
                    (ppc[p] = "recheck" /\ bytesGenerated + DocSize <= targetBytes)
       /\ sent' # sent =>
             /\ sent' = sent + 1
             /\ \E p \in Producers : ppc[p] = "send" /\ ppc'[p] = "addBytes"]_vars

(* One producer has sent the only record and left at the head of its loop,  *)
(* another has generated a record, found it would overshoot and left.       *)
C26_Witness ==
    \E p1, p2 \in Producers :
        /\ ppc[p1] = "done" /\ pexit[p1] = "targetMet"
        /\ ppc[p2] = "done" /\ pexit[p2] = "overshoot"
        /\ sent = 1 /\ bytesGenerated = DocSize /\ docsGenerated = 1

(* C27: the records sent on the channel and not yet received by a consumer  *)
(* are never more than 2 x batchSize, and no send completes while that many *)
(* are waiting.                                                             *)
C27_Backpressure ==
    /\ [](/\ chanLen = sent - SumOver(received, Writers)
          /\ chanLen >= 0
          /\ chanLen <= 2 * batchSize)
    /\ [][sent' # sent => chanLen < 2 * batchSize]_vars

(* The buffer is full and a producer is held at its send.                   *)
C27_Witness ==
    /\ chanLen = 2 * batchSize
    /\ sent - SumOver(received, Writers) = 2 * batchSize
    /\ ~chanClosed /\ ~panicked
    /\ \E p \in Producers : ppc[p] = "send"

(* C28: after every snapshot that writes a line lastOpCount is the number   *)
(* of samples, so the delta a periodic snapshot reports is the number of    *)
(* samples appended since the periodic snapshot before it (since the start  *)
(* for the first); lastOpCount never exceeds the number of samples and      *)
(* never decreases.                                                         *)
IsPeriodic(r) == r.kind = "periodic"
PeriodicReports == SelectSeq(reports, IsPeriodic)
BaseCount(targetKB) ==
    LET q == targetKB \div 8
        floored == IF q > 1 THEN q ELSE 1
    IN  IF floored < 20 THEN floored ELSE 20
OrderCountInRange(targetSize, count) ==
    /\ count <= 23
    /\ count >= 0
    /\ targetSize > Size4KB =>
          /\ count >= BaseCount(targetSize \div 1024)
          /\ count <= BaseCount(targetSize \div 1024) + 3
    /\ targetSize = Size4KB => count \in {1, 2}
C30_MarshalFailureWritesNothing ==
    /\ [](/\ \A w \in Writers :
                wexit[w] = "marshalErr" => (wpc[w] = "done" /\ batchLen[w] >= 1)
          /\ docsWritten <= SumOver([w \in Writers |-> Serialized(w)], Writers)
          /\ Len(operations) <= SumOver([w \in Writers |-> Serialized(w)], Writers))
    /\ [][\A w \in Writers :
             (wexit'[w] = "marshalErr" /\ wexit[w] # "marshalErr") =>
                 /\ wpc[w] = "insert" /\ wpc'[w] = "done"
                 /\ UNCHANGED <<operations, successCount, errorCount,
                                logBytesWritten, bytesWritten, docsWritten,
                                insertOk, latencyUs, recI, batchLen>>]_vars

(* A worker has returned the serialization error of a batch of two; nothing *)
(* was recorded or counted.                                                 *)
C30_Witness ==
    \E w \in Writers :
        /\ wpc[w] = "done" /\ wexit[w] = "marshalErr" /\ batchLen[w] = 2
        /\ operations = <<>> /\ bytesWritten = 0 /\ docsWritten = 0
        /\ flushed[w] = 2

(* C31 as stated: no producer is at its send on the channel once the        *)
(* monitor has closed it, and the panic of a send on a closed channel does  *)
(* not happen.                                                              *)
C31_NoSendOnClosedChannel ==
    /\ ~panicked
    /\ \A p \in Producers : ~(chanClosed /\ ppc[p] = "send")

(* C32 as stated: on a completion without error main does not go past its   *)
(* wait before every record sent has been passed to a flush, and it does    *)
(* not print the final statistics and return before every consumer worker   *)
(* has exited.                                                              *)
C32_MainWaitsForConsumers ==
    (GenerateError = "nil" /\ WriteError = "nil") =>
        /\ mainPc \in {"finishing", "exited"} => SumOver(flushed, Writers) = sent
        /\ mainPc = "exited" => AllWritersDone

(* C33 as stated: in a run that is not cancelled a producer at its send on  *)
(* the channel does not stay there forever, and once every consumer worker  *)
(* has exited through the soft cutoff every producer terminates (a run that *)
(* ends in the panic of C31 leaves no producer blocked and is not counted). *)
AllExitedByCutoff == \A w \in Writers : wpc[w] = "done" /\ wexit[w] = "cutoff"
C33_NoProducerBlockedForever ==
    /\ \A p \in 1..MaxWorkers :
          (p \in Producers /\ ppc[p] = "send")
              ~> (p \in Producers /\ (ppc[p] # "send" \/ panicked))
    /\ AllExitedByCutoff ~> (AllProducersDone \/ panicked)

(* C34: record conservation: the sends that completed are the records in    *)
(* the channel plus the records the consumers hold in a batch not yet       *)
(* passed to flushBatch plus the records of the batches passed to           *)
(* flushBatch; docsWritten never exceeds the sends that completed.          *)
Buffered(w) == IF InFlush(w) \/ wpc[w] = "done" THEN 0 ELSE batchLen[w]
C34_RecordConservation ==
    /\ sent = chanLen + SumOver([w \in Writers |-> Buffered(w)], Writers)
                      + SumOver(flushed, Writers)
    /\ docsWritten <= sent
    /\ docsWritten <= SumOver(flushed, Writers)

(* Records are in all three places at once: one waits in the channel and   *)
(* a consumer that has flushed and counted a batch holds a record in its    *)
(* next batch.                                                              *)
C34_Witness ==
    /\ chanLen >= 1
    /\ \E w \in Writers :
          /\ wpc[w] = "select" /\ batchLen[w] >= 1
          /\ flushed[w] >= 1
    /\ docsWritten >= 1
    /\ sent >= 3

(* C35: generatedBytes is a multiple of the tier size; with N producers     *)
(* docsGenerated x tier <= generatedBytes <= (docsGenerated + N) x tier,    *)
(* and the two counters agree once every producer has exited.               *)
C35_GeneratorCountersConsistent ==
    /\ bytesGenerated % DocSize = 0
    /\ docsGenerated * DocSize <= bytesGenerated
    /\ bytesGenerated <= (docsGenerated + workerCount) * DocSize
    /\ AllProducersDone => bytesGenerated = docsGenerated * DocSize

(* Every one of several producers has added its bytes and not yet its       *)
(* record: the byte counter is N records ahead.                             *)
C35_Witness ==
    /\ workerCount >= 2
    /\ \A p \in Producers : ppc[p] = "addDocs"
    /\ bytesGenerated = (docsGenerated + workerCount) * DocSize

(* C36 as stated: the logger's copy of bytesWritten never decreases and,    *)
(* once every consumer worker has exited, equals the writer's counter.      *)
C36_LoggerBytesFollowWriter ==
    /\ [][logBytesWritten' >= logBytesWritten]_vars
    /\ [](AllWritersDone => logBytesWritten = bytesWritten)

(* C37: successCount + errorCount is the number of samples in the log, the  *)
(* log changes only by appending, whatever the interleaving of              *)
(* RecordOperation calls and snapshots, and once every consumer worker has  *)
(* exited the number of samples equals docsWritten.                         *)
C37_SampleLogConsistent ==
    /\ [](successCount + errorCount = Len(operations))
    /\ [][/\ Len(operations') >= Len(operations)
           /\ SubSeq(operations', 1, Len(operations)) = operations]_vars
    /\ [](AllWritersDone => Len(operations) = docsWritten)

(* Every consumer has exited after successful and failed writes, and a      *)
(* periodic snapshot was taken between two RecordOperation calls.           *)
C37_Witness ==
    /\ AllWritersDone
    /\ successCount >= 1 /\ errorCount >= 1
    /\ docsWritten = Len(operations)
    /\ \E i \in 1..Len(reports) :
          /\ reports[i].kind = "periodic"
          /\ reports[i].totalOps < Len(operations)

StatLadder == <<"min", "p50", "p90", "p95", "p99", "p999", "p9999", "p99999", "max">>
OtherReport ==
    IF call.fn = "formatOperationStatsInline"
      THEN writeFinalOperationStats("INSERT", call.ops)
      ELSE formatOperationStatsInline("INSERT", call.ops)
C39_ReportedStatsOrdered ==
    (fnPc = "returned" /\ call.fn \in {"formatOperationStatsInline",
                                        "writeFinalOperationStats"}
                      /\ Len(call.ops) > 0) =>
        LET other == OtherReport
            stat == [i \in 1..Len(StatLadder) |->
                        IF StatLadder[i] \in DOMAIN ret
                          THEN ret[StatLadder[i]]
                          ELSE other[StatLadder[i]]]
        IN  /\ \A i \in 1..(Len(StatLadder) - 1) : stat[i] <= stat[i + 1]
            /\ \A i \in 1..Len(StatLadder) :
                   \E k \in 1..Len(call.ops) : call.ops[k].latencyUs = stat[i]

(* A final block over four samples recorded out of order, whose reported    *)
(* values are not all the same.                                             *)
C39_Witness ==
    /\ fnPc = "returned"
    /\ call.fn = "writeFinalOperationStats"
    /\ Len(call.ops) = 4
    /\ call.ops[1].latencyUs > call.ops[2].latencyUs
    /\ ret.min < ret.p50 /\ ret.p50 < ret.p95 /\ ret.p99999 = ret.max

====
